---- MODULE Spec2Model ----
(***************************************************************************)
(* Model X evaluation app: the App component's state (App.tsx), its event  *)
(* handlers, the views that decide which handler can be invoked, and the   *)
(* image generation client (geminiService.ts) with its external service.   *)
(*                                                                         *)
(* Text is a sequence of tokens: " " is a whitespace token, every other    *)
(* token stands for a run of non-whitespace characters.  A nullable value  *)
(* (T | null) is a sequence of length 0 (null) or 1 (the value).           *)
(***************************************************************************)
EXTENDS Integers, Sequences, FiniteSets, TLC

(* ------------------------------ bounds -------------------------------- *)

\* requests the external service accepts in one page session
MaxRequests == 5
\* FileReader reads that may be started in one page session
MaxReads == 2

(* ------------------------------ types.ts ------------------------------ *)

GENERAL_USER == "GENERAL_USER"
DESIGNER == "DESIGNER"
CREATOR == "CREATOR"
AI_EXPERT == "AI_EXPERT"
UserRole == {GENERAL_USER, DESIGNER, CREATOR, AI_EXPERT}

ONBOARDING == "ONBOARDING"
USER_INPUT == "USER_INPUT"
GENERATION_EVAL == "GENERATION_EVAL"
AB_TEST == "AB_TEST"
COMPLETED == "COMPLETED"
TestPhase == {ONBOARDING, USER_INPUT, GENERATION_EVAL, AB_TEST, COMPLETED}

Selections == {"A", "B", "Equal"}

(* --------------------------- nullable values -------------------------- *)

Null == <<>>
Some(x) == <<x>>
IsNull(o) == Len(o) = 0
Val(o) == o[1]

(* ------------------------------- text --------------------------------- *)

IsSpace(t) == t = " "

RECURSIVE TrimStart(_)
TrimStart(s) ==
  IF s = <<>> THEN <<>>
  ELSE IF IsSpace(Head(s)) THEN TrimStart(Tail(s)) ELSE s

RECURSIVE TrimEnd(_)
TrimEnd(s) ==
  IF s = <<>> THEN <<>>
  ELSE IF IsSpace(s[Len(s)]) THEN TrimEnd(SubSeq(s, 1, Len(s) - 1)) ELSE s

\* String.prototype.trim
Trim(s) == TrimEnd(TrimStart(s))

\* JavaScript truthiness of a string: the empty string is falsy
Truthy(s) == s # <<>>

(* ---------------------------- App constants --------------------------- *)

\* score of every entry of INITIAL_METRICS, and the reset score
DefaultScore == 3
\* number of entries of INITIAL_METRICS
NumMetrics == 4

SUGGESTED_PROMPTS == << <<"mars-city">>, <<"royal-cat">>, <<"cafe-logo">>, <<"tokyo-stall">> >>

GENERAL_USER_SUGGESTIONS == << <<"silver-hair">>, <<"denim-jacket">>, <<"pixar-style">>, <<"hawkins">> >>

GenerateSingleError == "generate-single-failed"
GeneralUserError == "image-processing-failed"
ProfessionalABError == "generate-comparison-failed"

(* ------------------------------ inputs -------------------------------- *)

\* what the user types into a prompt field
TypedPrompts == { <<>>, <<" ">>, <<" ", "bike", " ">> }
\* what the user types into the feedback field
TypedFeedback == { <<>>, <<" ">>, <<"sharper">> }
\* positions the rating slider is moved to
SliderInputs == {5}

(* ------------------- geminiService.ts: encoded images ----------------- *)

\* tokens made only of characters of the class [A-Za-z-+\/]
MimeClassTokens == {"image/png", "image/jpeg", "image/svg+xml"}
LineTerminator == "\n"

\* `data:${mimeType};base64,${data}`
DataUrl(mimeType, data) == <<"data:">> \o mimeType \o <<";base64,">> \o data

\* length of the longest run of tokens of the class [A-Za-z-+\/] from s[i] on
RECURSIVE MimeRun(_, _)
MimeRun(s, i) ==
  IF i <= Len(s) /\ s[i] \in MimeClassTokens THEN 1 + MimeRun(s, i + 1) ELSE 0

\* parseBase64 with (.*) for the payload where the source has (.+)
parseBase64AnyPayload(s) ==
  LET k == MimeRun(s, 2)
      rest == SubSeq(s, 3 + k, Len(s))
      matches == /\ Len(s) >= 1 /\ s[1] = "data:"
                 /\ k >= 1
                 /\ Len(s) >= 2 + k /\ s[2 + k] = ";base64,"
                 /\ \A j \in 1..Len(rest) : rest[j] # LineTerminator
  IN IF matches
       THEN [ok |-> TRUE, mimeType |-> SubSeq(s, 2, 1 + k), data |-> rest]
       ELSE [ok |-> FALSE, mimeType |-> <<>>, data |-> <<>>]

\* base64String.match(/^data:([A-Za-z-+\/]+);base64,(.+)$/), then the throw
\* or the two capture groups
parseBase64(s) ==
  LET k == MimeRun(s, 2)
      rest == SubSeq(s, 3 + k, Len(s))
      matches == /\ Len(s) >= 1 /\ s[1] = "data:"
                 /\ k >= 1
                 /\ Len(s) >= 2 + k /\ s[2 + k] = ";base64,"
                 /\ rest # <<>>
                 /\ \A j \in 1..Len(rest) : rest[j] # LineTerminator
  IN IF matches
       THEN [ok |-> TRUE, mimeType |-> SubSeq(s, 2, 1 + k), data |-> rest]
       ELSE [ok |-> FALSE, mimeType |-> <<>>, data |-> <<>>]

(* ------------- geminiService.ts: the external service ----------------- *)

TextPart(t) == [text |-> Some(t), inlineData |-> Null]
ImagePart(m, d) == [text |-> Null, inlineData |-> Some([mimeType |-> m, data |-> d])]

\* payload of the image the service makes for its n-th request: one per
\* request, so that an image names the request it answers
ServicePayload(n) == [i \in 1..n |-> "QQ"]

Response(parts) ==
  [throws |-> FALSE, candidates |-> Some(<<[content |-> Some([parts |-> Some(parts)])]>>)]

\* what ai.models.generateContent can do with the n-th request
ServiceOutcomes(n) ==
  { [throws |-> TRUE, candidates |-> Null],                      \* transport failure
    [throws |-> FALSE, candidates |-> Null],                     \* no candidates field
    [throws |-> FALSE, candidates |-> Some(<<>>)],               \* empty candidates
    [throws |-> FALSE, candidates |-> Some(<<[content |-> Null]>>)],
    [throws |-> FALSE, candidates |-> Some(<<[content |-> Some([parts |-> Null])]>>)],
    Response(<<TextPart(<<"caption">>)>>),
    Response(<<TextPart(<<"caption">>), ImagePart(<<"image/png">>, ServicePayload(n))>>),
    Response(<<ImagePart(<<"image/png">>, ServicePayload(n)),
               ImagePart(<<"image/jpeg">>, ServicePayload(n) \o <<"alt">>)>>) }

TransportError == "transport"
TypeError == "TypeError"
NoImageError == "No image data found in response"
InvalidInputError == "Invalid input string"

\* index of the first part with inlineData, 0 when there is none
RECURSIVE FirstImagePart(_, _)
FirstImagePart(parts, i) ==
  IF i > Len(parts) THEN 0
  ELSE IF ~IsNull(parts[i].inlineData) THEN i ELSE FirstImagePart(parts, i + 1)

\* generateTestImage from the service's answer on: the image or the error thrown
ExtractImage(outcome) ==
  IF outcome.throws THEN [ok |-> FALSE, error |-> TransportError, image |-> <<>>]
  ELSE IF IsNull(outcome.candidates)
    THEN [ok |-> FALSE, error |-> NoImageError, image |-> <<>>]
  ELSE IF Len(Val(outcome.candidates)) = 0
    THEN [ok |-> FALSE, error |-> TypeError, image |-> <<>>]
  ELSE LET content == Val(outcome.candidates)[1].content IN
    IF IsNull(content) \/ IsNull(Val(content).parts)
      THEN [ok |-> FALSE, error |-> NoImageError, image |-> <<>>]
    ELSE LET parts == Val(Val(content).parts)
             i == FirstImagePart(parts, 1) IN
      IF i = 0 THEN [ok |-> FALSE, error |-> NoImageError, image |-> <<>>]
      ELSE [ok |-> TRUE, error |-> "",
            image |-> DataUrl(Val(parts[i].inlineData).mimeType, Val(parts[i].inlineData).data)]

\* generateTestImage up to the request: whether the reference image, when one
\* is given, parses (parseBase64 throws otherwise and no request is made)
ReferenceParses(referenceImage) ==
  IsNull(referenceImage) \/ ~Truthy(Val(referenceImage)) \/ parseBase64(Val(referenceImage)).ok

\* the parts of the request generateTestImage sends
RequestParts(prompt, referenceImage) ==
  IF ~IsNull(referenceImage) /\ Truthy(Val(referenceImage))
    THEN LET p == parseBase64(Val(referenceImage))
         IN <<ImagePart(p.mimeType, p.data), TextPart(prompt)>>
    ELSE <<TextPart(prompt)>>

\* the two prompts generateComparisonPair derives
VariantPrompt(prompt, v) == prompt \o (IF v = 1 THEN <<" ", "--v", " ", "1">> ELSE <<" ", "--v", " ", "2">>)

(* --------------------------- uploaded files --------------------------- *)

\* files the user can pick: type and base64 of the content
Files ==
  { [type |-> <<"image/png">>, payload |-> <<"UE5H">>],
    [type |-> <<"image/jp2">>, payload |-> <<"SlAy">>] }

\* FileReader.readAsDataURL
ReadAsDataURL(file) == DataUrl(file.type, file.payload)

(* ------------------------------ Button.tsx ---------------------------- *)

\* a Button reacts to clicks unless disabled or showing its loading state
ButtonEnabled(disabled, isLoading) == ~disabled /\ ~isLoading

(* ------------------------------ App state ----------------------------- *)

VARIABLES
  phase,             \* useState<TestPhase>
  session,           \* useState<UserSession>
  prompt,            \* useState('')
  uploadedImage,     \* useState<string | null>
  loading,           \* useState(false)
  generatedImage,    \* useState<string | null>
  comparisonImages,  \* useState<{A, B} | null>
  metrics,           \* useState(INITIAL_METRICS): references to metric objects
  heap,              \* the metric objects; heap[1..NumMetrics] are INITIAL_METRICS
  textFeedback,      \* useState('')
  error,             \* useState<string | null>
  call,              \* the suspended async handler and the requests it awaits
  orphans,           \* requests in flight whose Promise.all has already rejected
  reads,             \* files a FileReader is still reading
  issued,            \* requests made to the service since the page loaded
  readsStarted,      \* reads started since the page loaded
  now,               \* Date.now(), as a logical clock
  download,          \* the file the report button has handed to the browser last
  probe,             \* a call of a service function on its own: argument and result
  left,              \* history: the phases this page session has left
  sent               \* history: what was passed to the generation whose result is
                     \* awaited or on screen, null when there is none

appVars == <<phase, session, prompt, uploadedImage, loading, generatedImage,
             comparisonImages, metrics, heap, textFeedback, error>>
envVars == <<call, orphans, reads, issued, readsStarted, now, download, probe>>
vars == <<appVars, envVars, left, sent>>

MetricIds == <<"adherence", "quality", "aesthetics", "coherence">>

INITIAL_METRICS == [i \in 1..NumMetrics |-> [id |-> MetricIds[i], score |-> DefaultScore]]

NoCall == [kind |-> "none", prompt |-> <<>>, referenceImage |-> Null, reqs |-> <<>>]

NoProbe == [fn |-> "none"]

\* the values of a freshly loaded page: the useState initial values
Loaded ==
  [phase |-> ONBOARDING,
   session |-> [role |-> GENERAL_USER, experienceLevel |-> 5,
                singleEvals |-> <<>>, abTests |-> <<>>],
   prompt |-> <<>>,
   metrics |-> [i \in 1..NumMetrics |-> i],
   heap |-> INITIAL_METRICS,
   textFeedback |-> <<>>]

Init ==
  /\ phase = Loaded.phase
  /\ session = Loaded.session
  /\ prompt = Loaded.prompt
  /\ uploadedImage = Null
  /\ loading = FALSE
  /\ generatedImage = Null
  /\ comparisonImages = Null
  /\ metrics = Loaded.metrics
  /\ heap = Loaded.heap
  /\ textFeedback = Loaded.textFeedback
  /\ error = Null
  /\ call = NoCall
  /\ orphans = 0
  /\ reads = <<>>
  /\ issued = 0
  /\ readsStarted = 0
  /\ now = 0
  /\ download = Null
  /\ probe = NoProbe
  /\ left = {}
  /\ sent = Null


(* -------------------------------- views ------------------------------- *)

isGeneralUser == session.role = GENERAL_USER

OnboardingView == phase = ONBOARDING
UserInputView == phase = USER_INPUT
GenerationEvalView == phase = GENERATION_EVAL
ABTestView == phase = AB_TEST
CompletedView == phase = COMPLETED

\* renderGenerationEval: the rating panel and its submit button
RatingPanelShown == GenerationEvalView /\ ~IsNull(generatedImage)
\* the start step rendered without the !loading of its condition
StartStepShownWhileLoading == ABTestView /\ IsNull(comparisonImages) /\ ~isGeneralUser
\* renderABTest: the three blocks
StartStepShown == ABTestView /\ IsNull(comparisonImages) /\ ~loading /\ ~isGeneralUser
SpinnerShown == ABTestView /\ loading
PairShown == ABTestView /\ ~IsNull(comparisonImages) /\ ~loading

\* where an error banner is rendered
ErrorShown ==
  /\ ~IsNull(error)
  /\ UserInputView \/ GenerationEvalView

\* the scores the sliders show
ShownScores == [i \in 1..NumMetrics |-> heap[metrics[i]].score]
\* the scores of a recorded evaluation
RecordedScores(r) == [i \in 1..Len(r.metrics) |-> heap[r.metrics[i]].score]

(* ------------------------------ handlers ------------------------------ *)

\* setPhase(p), and the history of phases left
SetPhase(p) ==
  /\ phase' = p
  /\ left' = IF p # phase THEN left \cup {phase} ELSE left

\* the branches of handleStart the other way round
StartPhaseSwapped(role) == IF role = GENERAL_USER THEN GENERATION_EVAL ELSE USER_INPUT

\* the phase handleStart chooses
StartPhase(role) == IF role = GENERAL_USER THEN USER_INPUT ELSE GENERATION_EVAL

\* renderOnboarding: a click on the button of a role
HandleStart(role) ==
  /\ OnboardingView
  /\ session' = [session EXCEPT !.role = role]
  /\ SetPhase(StartPhase(role))
  /\ UNCHANGED <<prompt, uploadedImage, loading, generatedImage, comparisonImages,
                 metrics, heap, textFeedback, error, envVars, sent>>

\* renderUserInput: the user picks a file in the hidden file input
HandleImageUpload(file) ==
  /\ UserInputView
  /\ readsStarted < MaxReads
  /\ reads' = Append(reads, file)
  /\ readsStarted' = readsStarted + 1
  /\ UNCHANGED <<appVars, call, orphans, issued, now, left, download, probe, sent>>

\* reader.onloadend: the read has ended, with the data URL or, when the read
\* failed, with a null result
ReaderLoadEnd(i, succeeded) ==
  /\ i \in 1..Len(reads)
  /\ uploadedImage' = IF succeeded THEN Some(ReadAsDataURL(reads[i])) ELSE Null
  /\ reads' = SubSeq(reads, 1, i - 1) \o SubSeq(reads, i + 1, Len(reads))
  /\ UNCHANGED <<phase, session, prompt, loading, generatedImage, comparisonImages,
                 metrics, heap, textFeedback, error, call, orphans, issued,
                 readsStarted, now, left, download, probe, sent>>

\* the prompt fields: the textareas of renderUserInput and renderGenerationEval
\* and the input of the start step of renderABTest
TypePrompt(text) ==
  /\ UserInputView \/ GenerationEvalView \/ StartStepShown
  /\ prompt' = text
  /\ UNCHANGED <<phase, session, uploadedImage, loading, generatedImage,
                 comparisonImages, metrics, heap, textFeedback, error, envVars, left,
                 sent>>

\* the suggestion chips: all of GENERAL_USER_SUGGESTIONS in renderUserInput,
\* SUGGESTED_PROMPTS.slice(0,2) in renderGenerationEval
PickSuggestion(i) ==
  /\ \/ UserInputView /\ i \in 1..Len(GENERAL_USER_SUGGESTIONS)
        /\ prompt' = GENERAL_USER_SUGGESTIONS[i]
     \/ GenerationEvalView /\ i \in 1..2
        /\ prompt' = SUGGESTED_PROMPTS[i]
  /\ UNCHANGED <<phase, session, uploadedImage, loading, generatedImage,
                 comparisonImages, metrics, heap, textFeedback, error, envVars, left,
                 sent>>

\* a request generateTestImage has made and awaits
Request(n, text, referenceImage) ==
  [serial |-> n, parts |-> RequestParts(text, referenceImage), settled |-> FALSE, image |-> <<>>]

\* the handler without its setGeneratedImage(null)
HandleGenerateSingleKeepsImage ==
  /\ GenerationEvalView
  /\ ButtonEnabled(~Truthy(prompt), loading)
  /\ IF ~Truthy(Trim(prompt))
       THEN UNCHANGED vars
       ELSE /\ issued < MaxRequests
            /\ loading' = TRUE
            /\ error' = Null
            /\ call' = [kind |-> "single", prompt |-> prompt, referenceImage |-> Null,
                        reqs |-> <<Request(issued + 1, prompt, Null)>>]
            /\ issued' = issued + 1
            /\ sent' = Some([prompt |-> prompt, referenceImage |-> Null])
            /\ UNCHANGED <<phase, session, prompt, uploadedImage, generatedImage,
                           comparisonImages, metrics, heap, textFeedback, orphans,
                           reads, readsStarted, now, left, download, probe>>

\* handleGenerateSingle with if (!prompt) return for its guard
handleGenerateSingleUntrimmedGuard ==
  IF ~Truthy(prompt)
    THEN UNCHANGED vars
    ELSE /\ issued < MaxRequests
         /\ loading' = TRUE
         /\ error' = Null
         /\ generatedImage' = Null
         /\ call' = [kind |-> "single", prompt |-> prompt, referenceImage |-> Null,
                     reqs |-> <<Request(issued + 1, prompt, Null)>>]
         /\ issued' = issued + 1
         /\ sent' = Some([prompt |-> prompt, referenceImage |-> Null])
         /\ UNCHANGED <<phase, session, prompt, uploadedImage, comparisonImages,
                        metrics, heap, textFeedback, orphans, reads, readsStarted,
                        now, left, download, probe>>

\* handleGenerateSingle up to its await
handleGenerateSingle ==
  IF ~Truthy(Trim(prompt))
    THEN UNCHANGED vars
    ELSE /\ issued < MaxRequests
         /\ loading' = TRUE
         /\ error' = Null
         /\ generatedImage' = Null
         /\ call' = [kind |-> "single", prompt |-> prompt, referenceImage |-> Null,
                     reqs |-> <<Request(issued + 1, prompt, Null)>>]
         /\ issued' = issued + 1
         /\ sent' = Some([prompt |-> prompt, referenceImage |-> Null])
         /\ UNCHANGED <<phase, session, prompt, uploadedImage, comparisonImages,
                        metrics, heap, textFeedback, orphans, reads, readsStarted,
                        now, left, download, probe>>

\* renderGenerationEval: the generate button
HandleGenerateSingle ==
  /\ GenerationEvalView
  /\ ButtonEnabled(~Truthy(prompt), loading)
  /\ handleGenerateSingle

\* RatingSlider onChange: newMetrics = [...metrics]; newMetrics[idx].score = val
\* writes the score into the object that both arrays hold
SliderChange(idx, val) ==
  /\ RatingPanelShown
  /\ idx \in 1..Len(metrics)
  /\ heap' = [heap EXCEPT ![metrics[idx]].score = val]
  /\ metrics' = metrics
  /\ UNCHANGED <<phase, session, prompt, uploadedImage, loading, generatedImage,
                 comparisonImages, textFeedback, error, envVars, left, sent>>

\* the mutation the reset must not be: the scores written into the objects
\* the live array holds
ResetMetricsInPlace(h, m) ==
  [heap |-> [k \in 1..Len(h) |->
               IF \E i \in 1..Len(m) : m[i] = k
                 THEN [h[k] EXCEPT !.score = DefaultScore] ELSE h[k]],
   metrics |-> m]

\* setMetrics(INITIAL_METRICS): the array whose objects the sliders have
\* written into
ResetMetricsToInitial(h, m) ==
  [heap |-> h, metrics |-> [i \in 1..NumMetrics |-> i]]

\* setMetrics(INITIAL_METRICS.map(m => ({...m, score: 3}))): new objects at the
\* end of the heap, and the array of references to them
ResetMetrics(h, m) ==
  [heap |-> h \o [i \in 1..NumMetrics |-> [id |-> h[i].id, score |-> DefaultScore]],
   metrics |-> [i \in 1..NumMetrics |-> Len(h) + i]]

\* the record handleSubmitSingleEval builds: metrics: [...metrics] copies the
\* references, not the objects
SingleEvalRecord ==
  [prompt |-> prompt, image |-> Val(generatedImage), metrics |-> metrics,
   feedback |-> textFeedback, timestamp |-> now]

\* handleSubmitSingleEval without its setSession
HandleSubmitSingleEvalSkipsRecord ==
  /\ RatingPanelShown
  /\ IF IsNull(generatedImage)
       THEN UNCHANGED vars
       ELSE /\ session' = session
            /\ generatedImage' = Null
            /\ prompt' = <<>>
            /\ heap' = ResetMetrics(heap, metrics).heap
            /\ metrics' = ResetMetrics(heap, metrics).metrics
            /\ textFeedback' = <<>>
            /\ SetPhase(AB_TEST)
            /\ now' = now + 1
            /\ sent' = Null
            /\ UNCHANGED <<uploadedImage, loading, comparisonImages, error, call,
                           orphans, reads, issued, readsStarted, download, probe>>

\* handleSubmitSingleEval
handleSubmitSingleEval ==
  IF IsNull(generatedImage)
    THEN UNCHANGED vars
    ELSE /\ session' = [session EXCEPT !.singleEvals = Append(@, SingleEvalRecord)]
         /\ generatedImage' = Null
         /\ prompt' = <<>>
         /\ heap' = ResetMetrics(heap, metrics).heap
         /\ metrics' = ResetMetrics(heap, metrics).metrics
         /\ textFeedback' = <<>>
         /\ SetPhase(AB_TEST)
         /\ now' = now + 1
         /\ sent' = Null
         /\ UNCHANGED <<uploadedImage, loading, comparisonImages, error, call,
                        orphans, reads, issued, readsStarted, download, probe>>

\* renderGenerationEval: the submit button of the rating panel
HandleSubmitSingleEval ==
  /\ RatingPanelShown
  /\ handleSubmitSingleEval

\* generateComparisonPair: the two requests, " --v 1" first
PairRequests(n, text, referenceImage) ==
  << Request(n + 1, VariantPrompt(text, 1), referenceImage),
     Request(n + 2, VariantPrompt(text, 2), referenceImage) >>

\* generateComparisonPair with the two results destructured the other way round
PairResultSwapped(reqs) == [imageA |-> reqs[2].image, imageB |-> reqs[1].image]

\* generateComparisonPair: what it returns once both requests have an image
PairResult(reqs) == [imageA |-> reqs[1].image, imageB |-> reqs[2].image]

\* setComparisonImages({ A: imageA, B: imageB })
ComparisonOf(pair) == Some([A |-> pair.imageA, B |-> pair.imageB])

\* handleGeneralUserSubmit without its setLoading(true)
HandleGeneralUserSubmitNoLoading ==
  /\ UserInputView
  /\ ButtonEnabled(IsNull(uploadedImage) \/ ~Truthy(Trim(prompt)), FALSE)
  /\ IF IsNull(uploadedImage) \/ ~Truthy(Trim(prompt))
       THEN UNCHANGED vars
       ELSE IF ~ReferenceParses(uploadedImage)
         THEN /\ error' = Some(GeneralUserError)
              /\ loading' = FALSE
              /\ phase' = USER_INPUT
              /\ left' = left \cup {USER_INPUT, AB_TEST}
              /\ UNCHANGED <<session, prompt, uploadedImage, generatedImage,
                             comparisonImages, metrics, heap, textFeedback, envVars,
                             sent>>
         ELSE /\ issued + 2 <= MaxRequests
              /\ loading' = loading
              /\ SetPhase(AB_TEST)
              /\ call' = [kind |-> "general", prompt |-> prompt,
                          referenceImage |-> uploadedImage,
                          reqs |-> PairRequests(issued, prompt, uploadedImage)]
              /\ issued' = issued + 2
              /\ sent' = Some([prompt |-> prompt, referenceImage |-> uploadedImage])
              /\ UNCHANGED <<session, prompt, uploadedImage, generatedImage,
                             comparisonImages, metrics, heap, textFeedback, error,
                             orphans, reads, readsStarted, now, download, probe>>

\* handleGeneralUserSubmit up to its await, or to its end when parseBase64
\* rejects the uploaded image
handleGeneralUserSubmit ==
  IF IsNull(uploadedImage) \/ ~Truthy(Trim(prompt))
    THEN UNCHANGED vars
    ELSE IF ~ReferenceParses(uploadedImage)
      THEN /\ error' = Some(GeneralUserError)
           /\ loading' = FALSE
           /\ phase' = USER_INPUT
           /\ left' = left \cup {USER_INPUT, AB_TEST}
           /\ UNCHANGED <<session, prompt, uploadedImage, generatedImage,
                          comparisonImages, metrics, heap, textFeedback, envVars, sent>>
      ELSE /\ issued + 2 <= MaxRequests
           /\ loading' = TRUE
           /\ SetPhase(AB_TEST)
           /\ call' = [kind |-> "general", prompt |-> prompt,
                       referenceImage |-> uploadedImage,
                       reqs |-> PairRequests(issued, prompt, uploadedImage)]
           /\ issued' = issued + 2
           /\ sent' = Some([prompt |-> prompt, referenceImage |-> uploadedImage])
           /\ UNCHANGED <<session, prompt, uploadedImage, generatedImage,
                          comparisonImages, metrics, heap, textFeedback, error,
                          orphans, reads, readsStarted, now, download, probe>>

\* renderUserInput: the submit button.  An uploaded image that parseBase64
\* rejects makes both generateTestImage calls throw before any request, and
\* the catch and finally blocks run before any other event: the phase has been
\* AB_TEST and is USER_INPUT again when the next event is handled.
HandleGeneralUserSubmit ==
  /\ UserInputView
  /\ ButtonEnabled(IsNull(uploadedImage) \/ ~Truthy(Trim(prompt)), FALSE)
  /\ handleGeneralUserSubmit

\* prompt.trim() ? prompt : SUGGESTED_PROMPTS[...]: the entered text untrimmed
TestPromptUntrimmed(text, pick) == IF Truthy(Trim(text)) THEN text ELSE SUGGESTED_PROMPTS[pick]

\* prompt.trim() || SUGGESTED_PROMPTS[Math.floor(Math.random() * length)]
TestPrompt(text, pick) == IF Truthy(Trim(text)) THEN Trim(text) ELSE SUGGESTED_PROMPTS[pick]

\* renderABTest: the button of the start step
HandleStartProfessionalABTest(pick) ==
  /\ StartStepShown
  /\ pick \in 1..Len(SUGGESTED_PROMPTS)
  /\ issued + 2 <= MaxRequests
  /\ prompt' = TestPrompt(prompt, pick)
  /\ loading' = TRUE
  /\ error' = Null
  /\ call' = [kind |-> "professional", prompt |-> TestPrompt(prompt, pick),
              referenceImage |-> Null,
              reqs |-> PairRequests(issued, TestPrompt(prompt, pick), Null)]
  /\ issued' = issued + 2
  /\ sent' = Some([prompt |-> TestPrompt(prompt, pick), referenceImage |-> Null])
  /\ UNCHANGED <<phase, session, uploadedImage, generatedImage, comparisonImages,
                 metrics, heap, textFeedback, orphans, reads, readsStarted, now, left,
                 download, probe>>

\* the requests of the suspended handler still in flight, other than request i
PendingSiblings(i) == {j \in 1..Len(call.reqs) : j # i /\ ~call.reqs[j].settled}

\* handleGenerateSingle with setLoading(false) at the end of the try block
\* instead of in a finally block
SingleSettlesNoFinally(r) ==
  /\ IF r.ok
       THEN generatedImage' = Some(r.image) /\ error' = error /\ loading' = FALSE
       ELSE error' = Some(GenerateSingleError) /\ generatedImage' = generatedImage
            /\ loading' = loading
  /\ call' = NoCall
  /\ sent' = (IF r.ok THEN sent ELSE Null)
  /\ UNCHANGED <<phase, session, prompt, uploadedImage, comparisonImages, metrics,
                 heap, textFeedback, orphans, reads, issued, readsStarted, now, left,
                 download, probe>>

\* handleGenerateSingle after the await
SingleSettles(r) ==
  /\ IF r.ok
       THEN generatedImage' = Some(r.image) /\ error' = error
       ELSE error' = Some(GenerateSingleError) /\ generatedImage' = generatedImage
  /\ loading' = FALSE
  /\ call' = NoCall
  /\ sent' = (IF r.ok THEN sent ELSE Null)
  /\ UNCHANGED <<phase, session, prompt, uploadedImage, comparisonImages, metrics,
                 heap, textFeedback, orphans, reads, issued, readsStarted, now, left,
                 download, probe>>

\* the catch blocks with the professional flow also going back one phase
PairRejectsBackToEval(i) ==
  /\ IF call.kind = "general"
       THEN error' = Some(GeneralUserError) /\ SetPhase(USER_INPUT)
       ELSE error' = Some(ProfessionalABError) /\ SetPhase(GENERATION_EVAL)
  /\ loading' = FALSE
  /\ orphans' = orphans + Cardinality(PendingSiblings(i))
  /\ call' = NoCall
  /\ sent' = Null
  /\ UNCHANGED <<session, prompt, uploadedImage, generatedImage, comparisonImages,
                 metrics, heap, textFeedback, reads, issued, readsStarted, now,
                 download, probe>>

\* the catch blocks without the setPhase(USER_INPUT) of the general-user flow
PairRejectsStaysOnABTest(i) ==
  /\ IF call.kind = "general"
       THEN error' = Some(GeneralUserError)
       ELSE error' = Some(ProfessionalABError)
  /\ loading' = FALSE
  /\ orphans' = orphans + Cardinality(PendingSiblings(i))
  /\ call' = NoCall
  /\ sent' = Null
  /\ UNCHANGED <<phase, left, session, prompt, uploadedImage, generatedImage,
                 comparisonImages, metrics, heap, textFeedback, reads, issued,
                 readsStarted, now, download, probe>>

\* Promise.allSettled where Promise.all belongs: the failure is handled only
\* when the sibling has settled too
PairRejectsAfterSibling(i) ==
  IF PendingSiblings(i) # {}
    THEN /\ call' = [call EXCEPT !.reqs[i].settled = TRUE]
         /\ UNCHANGED <<appVars, orphans, reads, issued, readsStarted, now, left,
                        download, probe, sent>>
    ELSE /\ IF call.kind = "general"
              THEN error' = Some(GeneralUserError) /\ SetPhase(USER_INPUT)
              ELSE error' = Some(ProfessionalABError) /\ UNCHANGED <<phase, left>>
         /\ loading' = FALSE
         /\ call' = NoCall
         /\ sent' = Null
         /\ UNCHANGED <<session, prompt, uploadedImage, generatedImage,
                        comparisonImages, metrics, heap, textFeedback, orphans, reads,
                        issued, readsStarted, now, download, probe>>

\* Promise.all rejects with the first request that fails; the catch and the
\* finally block of the handler that awaits it run; the sibling stays in flight
PairRejects(i) ==
  /\ IF call.kind = "general"
       THEN error' = Some(GeneralUserError) /\ SetPhase(USER_INPUT)
       ELSE error' = Some(ProfessionalABError) /\ UNCHANGED <<phase, left>>
  /\ loading' = FALSE
  /\ orphans' = orphans + Cardinality(PendingSiblings(i))
  /\ call' = NoCall
  /\ sent' = Null
  /\ UNCHANGED <<session, prompt, uploadedImage, generatedImage, comparisonImages,
                 metrics, heap, textFeedback, reads, issued, readsStarted, now,
                 download, probe>>

\* Promise.race where Promise.all belongs: the pair is stored with the first image
PairAdvancesOnFirst(i, image) ==
  LET reqs == [call.reqs EXCEPT ![i].settled = TRUE, ![i].image = image] IN
  /\ comparisonImages' = ComparisonOf(PairResult(reqs))
  /\ loading' = FALSE
  /\ call' = NoCall
  /\ orphans' = orphans + Cardinality(PendingSiblings(i))
  /\ UNCHANGED <<phase, session, prompt, uploadedImage, generatedImage, metrics,
                 heap, textFeedback, error, reads, issued, readsStarted, now, left,
                 download, probe, sent>>

\* a request of the pair has its image: Promise.all fulfils when it is the
\* last one, and the handler stores the pair
PairAdvances(i, image) ==
  LET reqs == [call.reqs EXCEPT ![i].settled = TRUE, ![i].image = image] IN
  /\ IF PendingSiblings(i) = {}
       THEN /\ comparisonImages' = ComparisonOf(PairResult(reqs))
            /\ loading' = FALSE
            /\ call' = NoCall
       ELSE /\ call' = [call EXCEPT !.reqs = reqs]
            /\ UNCHANGED <<comparisonImages, loading>>
  /\ UNCHANGED <<phase, session, prompt, uploadedImage, generatedImage, metrics,
                 heap, textFeedback, error, orphans, reads, issued, readsStarted,
                 now, left, download, probe, sent>>

\* the service answers request i of the suspended handler
RequestSettles(i, outcome) ==
  /\ call.kind # "none"
  /\ i \in 1..Len(call.reqs)
  /\ ~call.reqs[i].settled
  /\ outcome \in ServiceOutcomes(call.reqs[i].serial)
  /\ LET r == ExtractImage(outcome) IN
       IF call.kind = "single" THEN SingleSettles(r)
       ELSE IF r.ok THEN PairAdvances(i, r.image)
       ELSE PairRejects(i)

\* a request whose own rejection runs the catch block of the general-user flow
OrphanSettlesReverts ==
  /\ orphans > 0
  /\ orphans' = orphans - 1
  /\ IF isGeneralUser THEN SetPhase(USER_INPUT) ELSE UNCHANGED <<phase, left>>
  /\ UNCHANGED <<session, prompt, uploadedImage, loading, generatedImage,
                 comparisonImages, metrics, heap, textFeedback, error, call, reads,
                 issued, readsStarted, now, download, probe, sent>>

\* the service answers a request whose Promise.all has already rejected
OrphanSettles ==
  /\ orphans > 0
  /\ orphans' = orphans - 1
  /\ UNCHANGED <<appVars, call, reads, issued, readsStarted, now, left, download, probe, sent>>

\* renderABTest: the feedback textarea
TypeFeedback(text) ==
  /\ PairShown
  /\ textFeedback' = text
  /\ UNCHANGED <<phase, session, prompt, uploadedImage, loading, generatedImage,
                 comparisonImages, metrics, heap, error, envVars, left, sent>>

\* the record with the feedback trimmed on the way in
ABTestRecordTrimmed(selection) ==
  [prompt |-> prompt, sourceImage |-> uploadedImage,
   imageA |-> Val(comparisonImages).A, imageB |-> Val(comparisonImages).B,
   selectedImage |-> selection, reasoning |-> Trim(textFeedback), timestamp |-> now]

\* the record handleABSelection builds
ABTestRecord(selection) ==
  [prompt |-> prompt, sourceImage |-> uploadedImage,
   imageA |-> Val(comparisonImages).A, imageB |-> Val(comparisonImages).B,
   selectedImage |-> selection, reasoning |-> textFeedback, timestamp |-> now]

\* the Equal button with disabled={!textFeedback}
SelectionOfferedUntrimmed(selection) ==
  /\ PairShown
  /\ selection = "Equal" => ButtonEnabled(~Truthy(textFeedback), FALSE)

\* renderABTest: which of the three choices can be clicked
SelectionOffered(selection) ==
  /\ PairShown
  /\ selection = "Equal" => ButtonEnabled(~Truthy(Trim(textFeedback)), FALSE)

\* handleABSelection building the new session without the ...prev spread
HandleABSelectionDropsHistory(selection) ==
  /\ SelectionOffered(selection)
  /\ IF IsNull(comparisonImages)
       THEN UNCHANGED vars
       ELSE /\ session' = [session EXCEPT !.singleEvals = <<>>,
                                       !.abTests = <<ABTestRecord(selection)>>]
            /\ SetPhase(COMPLETED)
            /\ now' = now + 1
            /\ sent' = Null
            /\ UNCHANGED <<prompt, uploadedImage, loading, generatedImage,
                           comparisonImages, metrics, heap, textFeedback, error, call,
                           orphans, reads, issued, readsStarted, download, probe>>

\* handleABSelection
handleABSelection(selection) ==
  IF IsNull(comparisonImages)
    THEN UNCHANGED vars
    ELSE /\ session' = [session EXCEPT !.abTests = Append(@, ABTestRecord(selection))]
         /\ SetPhase(COMPLETED)
         /\ now' = now + 1
         /\ sent' = Null
         /\ UNCHANGED <<prompt, uploadedImage, loading, generatedImage,
                        comparisonImages, metrics, heap, textFeedback, error, call,
                        orphans, reads, issued, readsStarted, download, probe>>

\* renderABTest: a click on image A or B, or on the Equal button
HandleABSelection(selection) ==
  /\ SelectionOffered(selection)
  /\ handleABSelection(selection)

(* JSON.stringify: an object is the sequence of its <<key, value>> pairs in
   insertion order, without the keys whose value is undefined; an array is the
   sequence of its elements; an object reached through a reference is written
   out by value.  The label and the description of a metric, which nothing
   changes, are left out. *)
StringifyMetric(h, ref) == << <<"id", h[ref].id>>, <<"score", h[ref].score>> >>

StringifySingleEval(h, r) ==
  << <<"prompt", r.prompt>>,
     <<"image", r.image>>,
     <<"metrics", [i \in 1..Len(r.metrics) |-> StringifyMetric(h, r.metrics[i])]>>,
     <<"feedback", r.feedback>>,
     <<"timestamp", r.timestamp>> >>

\* sourceImage is uploadedImage || undefined
StringifyABTest(r) ==
  << <<"prompt", r.prompt>> >>
  \o (IF IsNull(r.sourceImage) \/ ~Truthy(Val(r.sourceImage))
        THEN <<>> ELSE << <<"sourceImage", Val(r.sourceImage)>> >>)
  \o << <<"imageA", r.imageA>>,
        <<"imageB", r.imageB>>,
        <<"selectedImage", r.selectedImage>>,
        <<"reasoning", r.reasoning>>,
        <<"timestamp", r.timestamp>> >>

StringifySession(h, s) ==
  << <<"role", s.role>>,
     <<"experienceLevel", s.experienceLevel>>,
     <<"singleEvals", [k \in 1..Len(s.singleEvals) |-> StringifySingleEval(h, s.singleEvals[k])]>>,
     <<"abTests", [k \in 1..Len(s.abTests) |-> StringifyABTest(s.abTests[k])]>> >>

ReportFilename == "model_x_eval_results.json"

\* the download button with the session of the first render in its closure
DownloadReportStaleSession ==
  /\ CompletedView
  /\ download' = Some([filename |-> ReportFilename,
                       document |-> StringifySession(heap, Loaded.session)])
  /\ UNCHANGED <<appVars, call, orphans, reads, issued, readsStarted, now, probe, left, sent>>

\* renderCompleted: the download button.  The file the browser saves has the
\* name of the download attribute and, as content, the JSON text that
\* encodeURIComponent has escaped into the href
DownloadReport ==
  /\ CompletedView
  /\ download' = Some([filename |-> ReportFilename,
                       document |-> StringifySession(heap, session)])
  /\ UNCHANGED <<appVars, call, orphans, reads, issued, readsStarted, now, probe, left, sent>>

\* renderCompleted: window.location.reload() starts a new page session; the
\* callbacks of the old page are gone with it
Reload ==
  /\ CompletedView
  /\ phase' = Loaded.phase
  /\ session' = Loaded.session
  /\ prompt' = Loaded.prompt
  /\ uploadedImage' = Null
  /\ loading' = FALSE
  /\ generatedImage' = Null
  /\ comparisonImages' = Null
  /\ metrics' = Loaded.metrics
  /\ heap' = Loaded.heap
  /\ textFeedback' = Loaded.textFeedback
  /\ error' = Null
  /\ call' = NoCall
  /\ orphans' = 0
  /\ reads' = <<>>
  /\ issued' = 0
  /\ readsStarted' = 0
  /\ now' = 0
  /\ download' = Null
  /\ probe' = probe
  /\ left' = {}
  /\ sent' = Null

Next ==
  \/ \E role \in UserRole : HandleStart(role)
  \/ \E file \in Files : HandleImageUpload(file)
  \/ \E i \in 1..MaxReads, succeeded \in BOOLEAN : ReaderLoadEnd(i, succeeded)
  \/ \E text \in TypedPrompts : TypePrompt(text)
  \/ \E i \in 1..Len(GENERAL_USER_SUGGESTIONS) : PickSuggestion(i)
  \/ HandleGenerateSingle
  \/ \E idx \in 1..NumMetrics, val \in SliderInputs : SliderChange(idx, val)
  \/ HandleSubmitSingleEval
  \/ HandleGeneralUserSubmit
  \/ \E pick \in 1..Len(SUGGESTED_PROMPTS) : HandleStartProfessionalABTest(pick)
  \/ \E i \in 1..2, outcome \in UNION {ServiceOutcomes(n) : n \in 1..MaxRequests} :
        RequestSettles(i, outcome)
  \/ OrphanSettles
  \/ \E text \in TypedFeedback : TypeFeedback(text)
  \/ \E selection \in Selections : HandleABSelection(selection)
  \/ DownloadReport
  \/ Reload

Spec == Init /\ [][Next]_vars

(* --------------- the service functions, called on their own ----------- *)

\* bounds of the arguments: parts of a response, tokens of a media type and
\* of a payload
MaxParts == 3
MaxTokens == 2

SeqsUpTo(S, n) == UNION {[1..k -> S] : k \in 0..n}

\* parts a response can be made of
ResponseParts ==
  { TextPart(<<"caption">>),
    ImagePart(<<"image/png">>, <<"QQ">>),
    ImagePart(<<"image/jpeg">>, <<"QQ", "alt">>) }

\* what ai.models.generateContent can resolve or reject with
Responses ==
  { [throws |-> TRUE, candidates |-> Null],
    [throws |-> FALSE, candidates |-> Null],
    [throws |-> FALSE, candidates |-> Some(<<>>)],
    [throws |-> FALSE, candidates |-> Some(<<[content |-> Null]>>)],
    [throws |-> FALSE, candidates |-> Some(<<[content |-> Some([parts |-> Null])]>>)] }
  \cup { Response(parts) : parts \in SeqsUpTo(ResponseParts, MaxParts) }

\* media types and payloads: tokens inside and outside the class
\* [A-Za-z-+\/], line terminators and the separator itself included
MediaTypes == SeqsUpTo({"image/png", "image/svg+xml", "image/jp2", "image/x.icon"}, MaxTokens)
Payloads == SeqsUpTo({"QQ", "UE5H", LineTerminator, ";base64,"}, MaxTokens)

\* generateTestImage with the service answering response
GenerateTestImage(response) ==
  /\ probe = NoProbe
  /\ probe' = [fn |-> "generateTestImage", response |-> response,
               result |-> ExtractImage(response)]
  /\ UNCHANGED <<appVars, call, orphans, reads, issued, readsStarted, now, download, left,
                 sent>>

\* the string generateTestImage builds for its output, handed to parseBase64
ParseEncoded(mimeType, data) ==
  /\ probe = NoProbe
  /\ probe' = [fn |-> "parseBase64", mimeType |-> mimeType, data |-> data,
               result |-> parseBase64(DataUrl(mimeType, data))]
  /\ UNCHANGED <<appVars, call, orphans, reads, issued, readsStarted, now, download, left,
                 sent>>

ServiceNext ==
  \/ \E response \in Responses : GenerateTestImage(response)
  \/ \E mimeType \in MediaTypes, data \in Payloads : ParseEncoded(mimeType, data)

ServiceSpec == Init /\ [][ServiceNext]_vars

(* ============================ properties ============================== *)

Last(seq) == seq[Len(seq)]
\* the scores of a recorded evaluation, read in heap h
ScoresIn(h, r) == [i \in 1..Len(r.metrics) |-> h[r.metrics[i]].score]
\* a step of window.location.reload()
ReloadStep == phase = COMPLETED /\ phase' = ONBOARDING

(* C1: selecting a role in ONBOARDING moves the phase to USER_INPUT when the
   role is GENERAL_USER and to GENERATION_EVAL for every other role, and in no
   state is a general user in GENERATION_EVAL or another role in USER_INPUT. *)
C1_RoleDecidesFirstPhase ==
  /\ [](/\ phase = USER_INPUT => session.role = GENERAL_USER
        /\ phase = GENERATION_EVAL => session.role # GENERAL_USER)
  /\ [][phase = ONBOARDING /\ phase' # ONBOARDING =>
          /\ session'.role = GENERAL_USER => phase' = USER_INPUT
          /\ session'.role # GENERAL_USER => phase' = GENERATION_EVAL]_vars

C1_Witness == phase = GENERATION_EVAL /\ session.role = CREATOR

(* C2: a submitted single evaluation appends exactly one record whose four
   scores are the scores the sliders showed at submission, and the scores of a
   recorded evaluation are the same after every later step, the reset of the
   live metrics included. *)
C2_SnapshotOfShownScores ==
  [][/\ (phase = GENERATION_EVAL /\ phase' # GENERATION_EVAL) =>
          /\ ~IsNull(generatedImage)
          /\ Len(session'.singleEvals) = Len(session.singleEvals) + 1
          /\ SubSeq(session'.singleEvals, 1, Len(session.singleEvals)) = session.singleEvals
          /\ Len(Last(session'.singleEvals).metrics) = NumMetrics
          /\ ScoresIn(heap', Last(session'.singleEvals)) = ShownScores
     /\ (session'.singleEvals # session.singleEvals /\ ~ReloadStep) =>
          phase = GENERATION_EVAL /\ phase' = AB_TEST
     /\ \A k \in 1..Len(session.singleEvals) :
          k <= Len(session'.singleEvals) =>
            ScoresIn(heap', session'.singleEvals[k]) = ScoresIn(heap, session.singleEvals[k])
    ]_vars

C2_Witness ==
  /\ Len(session.singleEvals) = 1
  /\ ScoresIn(heap, session.singleEvals[1]) = <<5, DefaultScore, DefaultScore, 5>>
  /\ ShownScores = <<DefaultScore, DefaultScore, DefaultScore, DefaultScore>>

(* C3: a pairwise choice made while a comparison pair is shown appends exactly
   one record whose selectedImage is the choice, whose reasoning is the
   feedback text at that moment and whose images are the current pair. *)
C3_PairwiseRecord ==
  [][\A selection \in Selections :
       (HandleABSelection(selection) /\ ~IsNull(comparisonImages)) =>
          /\ Len(session'.abTests) = Len(session.abTests) + 1
          /\ SubSeq(session'.abTests, 1, Len(session.abTests)) = session.abTests
          /\ Last(session'.abTests).selectedImage = selection
          /\ Last(session'.abTests).reasoning = textFeedback
          /\ Last(session'.abTests).imageA = Val(comparisonImages).A
          /\ Last(session'.abTests).imageB = Val(comparisonImages).B
    ]_vars

C3_Witness ==
  /\ phase = COMPLETED
  /\ Len(session.abTests) = 1
  /\ session.abTests[1].selectedImage = "B"
  /\ session.abTests[1].reasoning = <<" ">>

(* C4: the comparison pair is absent or holds both images; while the paired
   generation is still awaited, also with one of its two images already
   there, no pair is stored. *)
C4_PairIsWhole ==
  /\ ~IsNull(comparisonImages) =>
        Truthy(Val(comparisonImages).A) /\ Truthy(Val(comparisonImages).B)
  /\ call.kind \in {"general", "professional"} => IsNull(comparisonImages)

C4_Witness ==
  /\ call.kind = "general"
  /\ call.reqs[2].settled /\ ~call.reqs[1].settled

(* C5 as claimed: within one page session no phase is entered again once it
   has been left. *)
C5_NoPhaseReentered ==
  [][(phase' # phase /\ ~ReloadStep) => phase' \notin left]_vars

(* C5 as amended: within one page session a phase is entered again only in
   the general-user flow, where a failed paired generation brings AB_TEST back
   to USER_INPUT and the retry enters AB_TEST again; ONBOARDING,
   GENERATION_EVAL and COMPLETED are never entered again. *)
C5_ReentryOnlyByGeneralRetry ==
  [][(phase' # phase /\ ~ReloadStep) =>
        \/ phase' \notin left
        \/ /\ isGeneralUser /\ phase = AB_TEST /\ phase' = USER_INPUT
           /\ call.kind = "general" /\ error' = Some(GeneralUserError)
        \/ /\ isGeneralUser /\ phase = USER_INPUT /\ phase' = AB_TEST
           /\ error = Some(GeneralUserError) /\ loading'
    ]_vars

C5_Witness == phase = AB_TEST /\ AB_TEST \in left /\ call.kind = "general"

(* C6 as claimed: every recorded pairwise choice has a non-empty reasoning,
   whichever of A, B or Equal was selected. *)
C6_ReasoningAlwaysPresent ==
  \A k \in 1..Len(session.abTests) : Truthy(session.abTests[k].reasoning)

(* C7: the Equal choice can be made exactly while the pair is shown and the
   feedback is non-blank after trimming, so every record with Equal has
   non-blank reasoning; A and B can be chosen whenever the pair is shown. *)
C7_EqualNeedsFeedback ==
  /\ \A k \in 1..Len(session.abTests) :
        session.abTests[k].selectedImage = "Equal" =>
          Truthy(Trim(session.abTests[k].reasoning))
  /\ (ENABLED HandleABSelection("Equal")) <=> (PairShown /\ Truthy(Trim(textFeedback)))
  /\ (ENABLED HandleABSelection("A")) <=> PairShown
  /\ (ENABLED HandleABSelection("B")) <=> PairShown

C7_Witness ==
  /\ phase = COMPLETED
  /\ session.abTests[1].selectedImage = "Equal"
  /\ session.abTests[1].reasoning = <<"sharper">>

\* a step in which the paired generation of the general-user flow fails: the
\* awaited call ends without a pair, or the uploaded image does not parse
GeneralPairFails ==
  \/ call.kind = "general" /\ call'.kind = "none" /\ comparisonImages' = comparisonImages
  \/ /\ HandleGeneralUserSubmit
     /\ ~IsNull(uploadedImage) /\ Truthy(Trim(prompt)) /\ ~ReferenceParses(uploadedImage)

(* C8: when the paired generation a general user started fails, the phase is
   USER_INPUT, the error is set and shown, loading is false, no pair is
   stored, and the step leaves the uploaded image and the intent text alone. *)
C8_GeneralFailureReverts ==
  [][GeneralPairFails =>
        /\ phase' = USER_INPUT
        /\ error' = Some(GeneralUserError)
        /\ ErrorShown'
        /\ ~loading'
        /\ IsNull(comparisonImages')
        /\ uploadedImage' = uploadedImage
        /\ prompt' = prompt
    ]_vars

C8_Witness ==
  /\ phase = USER_INPUT
  /\ error = Some(GeneralUserError)
  /\ issued = 2 /\ call.kind = "none"
  /\ ~IsNull(uploadedImage)

(* C9 as claimed: when the paired generation of the professional flow fails,
   the phase stays AB_TEST, no pair is stored, and the error is shown to the
   user in the AB_TEST view. *)
C9_ProfessionalFailureShowsBanner ==
  [][(call.kind = "professional" /\ call'.kind = "none" /\ IsNull(comparisonImages')) =>
        /\ phase = AB_TEST /\ phase' = AB_TEST
        /\ error' = Some(ProfessionalABError)
        /\ ErrorShown'
    ]_vars

(* C10: a failed single generation leaves the phase GENERATION_EVAL with the
   error set, no generated image and the session as it was; a generated image
   appears only by a generation that succeeds, and an evaluation is recorded
   only from a state with a generated image. *)
C10_FailedSingleGeneration ==
  [][/\ (call.kind = "single" /\ call'.kind = "none" /\ generatedImage' = generatedImage) =>
          /\ phase = GENERATION_EVAL /\ phase' = GENERATION_EVAL
          /\ error' = Some(GenerateSingleError)
          /\ IsNull(generatedImage')
          /\ ~loading'
          /\ session' = session
     /\ (IsNull(generatedImage) /\ ~IsNull(generatedImage')) =>
          call.kind = "single" /\ call'.kind = "none" /\ phase = GENERATION_EVAL
     /\ (session'.singleEvals # session.singleEvals /\ ~ReloadStep) =>
          ~IsNull(generatedImage) /\ ~loading
    ]_vars

C10_Witness ==
  /\ phase = GENERATION_EVAL
  /\ error = Some(GenerateSingleError)
  /\ IsNull(generatedImage) /\ ~loading
  /\ issued = 2

\* a click on the generate button would send a request
CanGenerateSingle ==
  GenerationEvalView /\ ButtonEnabled(~Truthy(prompt), loading) /\ Truthy(Trim(prompt))
\* a click on the submit button of the general-user form would start the pair
CanSubmitGeneral ==
  /\ UserInputView
  /\ ButtonEnabled(IsNull(uploadedImage) \/ ~Truthy(Trim(prompt)), FALSE)
\* the start step of the professional comparison is on screen
CanStartProfessional == StartStepShown
\* steps in which a generation fails, and in which one succeeds
SingleFails == call.kind = "single" /\ call'.kind = "none" /\ IsNull(generatedImage')
ProfessionalPairFails ==
  call.kind = "professional" /\ call'.kind = "none" /\ IsNull(comparisonImages')
SingleSucceeds == call.kind = "single" /\ ~IsNull(generatedImage')
PairSucceeds == call.kind \in {"general", "professional"} /\ ~IsNull(comparisonImages')

(* C11 as claimed: after a failed single generation, a failed general-user
   paired generation or a failed professional paired generation has been
   handled, loading is false and the action that triggered it can be taken
   again, its inputs being present. *)
C11_RetryAlwaysEnabled ==
  [][/\ SingleFails => ~loading' /\ CanGenerateSingle'
     /\ GeneralPairFails => ~loading' /\ CanSubmitGeneral'
     /\ ProfessionalPairFails => ~loading' /\ CanStartProfessional'
    ]_vars

(* C11 as amended: handling a generation failure sets loading to false and
   changes neither the prompt nor the uploaded image. The start step of the
   professional comparison is offered again in every case; the generate
   button can be used again exactly when the prompt, which the user can edit
   while the request is in flight, is non-blank at the failure; the
   general-user submit can be used again exactly when the uploaded image,
   which a file read ending without a result clears, is present at the
   failure. A generation that succeeds, after any number of failures, shows
   the rating panel or the pair, whose submission is then possible. *)
C11_RetryEnabledWithInputs ==
  [][/\ (SingleFails \/ GeneralPairFails \/ ProfessionalPairFails) =>
          ~loading' /\ prompt' = prompt /\ uploadedImage' = uploadedImage
     /\ SingleFails =>
          /\ phase' = GENERATION_EVAL
          /\ CanGenerateSingle' <=> Truthy(Trim(prompt))
     /\ GeneralPairFails =>
          /\ phase' = USER_INPUT /\ Truthy(Trim(prompt'))
          /\ CanSubmitGeneral' <=> ~IsNull(uploadedImage)
     /\ ProfessionalPairFails => CanStartProfessional'
     /\ SingleSucceeds => RatingPanelShown' /\ ~loading'
     /\ PairSucceeds => PairShown' /\ SelectionOffered("A")' /\ SelectionOffered("B")'
    ]_vars

C11_Witness ==
  /\ phase = COMPLETED
  /\ session.role = GENERAL_USER
  /\ error = Some(GeneralUserError)
  /\ Len(session.abTests) = 1

\* the handler of a paired generation has issued its requests
PairIssued == call.kind = "none" /\ call'.kind \in {"general", "professional"}

(* C12: a paired generation issues both requests before either settles; the
   aggregate fails in the very step in which one request fails, with the
   sibling left in flight when it has not settled; a pair is stored only in
   the step in which the second of two successful requests settles; a request
   left in flight settles later without changing the application state. *)
C12_FailFastNoCancellation ==
  [][/\ PairIssued =>
          /\ Len(call'.reqs) = 2
          /\ ~call'.reqs[1].settled /\ ~call'.reqs[2].settled
          /\ issued' = issued + 2 /\ orphans' = orphans
     /\ call.kind \in {"general", "professional"} =>
          \A i \in {j \in 1..2 : ~call.reqs[j].settled} :
            \A outcome \in ServiceOutcomes(call.reqs[i].serial) :
              (~ExtractImage(outcome).ok /\ RequestSettles(i, outcome)) =>
                 /\ call'.kind = "none" /\ ~loading'
                 /\ ~IsNull(error') /\ IsNull(comparisonImages')
                 /\ orphans' = orphans + (IF call.reqs[3 - i].settled THEN 0 ELSE 1)
     /\ (IsNull(comparisonImages) /\ ~IsNull(comparisonImages')) =>
          /\ call.kind \in {"general", "professional"}
          /\ \E i \in 1..2 :
                /\ ~call.reqs[i].settled
                /\ call.reqs[3 - i].settled /\ Truthy(call.reqs[3 - i].image)
          /\ orphans' = orphans
     /\ (orphans' < orphans /\ ~Reload) => UNCHANGED <<appVars, call>>
    ]_vars

C12_Witness ==
  /\ orphans = 1 /\ call.kind = "none"
  /\ phase = AB_TEST /\ session.role = DESIGNER
  /\ error = Some(ProfessionalABError)
  /\ IsNull(comparisonImages) /\ ~loading

\* image is what generateTestImage returns for some answer to the n-th request
Answers(image, n) ==
  \E outcome \in ServiceOutcomes(n) :
    ExtractImage(outcome).ok /\ ExtractImage(outcome).image = image
\* the reference image and the text a request carries
ReferenceOf(req) == SubSeq(req.parts, 1, Len(req.parts) - 1)
TextOf(req) == Last(req.parts).text

(* C13: a paired generation issues exactly two requests; their texts are the
   base prompt followed by " --v 1" and by " --v 2", and both carry the same
   reference image, the uploaded one in the general-user flow and none in the
   professional flow; the stored image A is the answer to the " --v 1"
   request and image B the answer to the " --v 2" request, in whichever order
   the two have settled. *)
C13_VariantsKeepTheirSide ==
  [][/\ PairIssued =>
          /\ Len(call'.reqs) = 2 /\ issued' = issued + 2
          /\ TextOf(call'.reqs[1]) = Some(prompt' \o <<" ", "--v", " ", "1">>)
          /\ TextOf(call'.reqs[2]) = Some(prompt' \o <<" ", "--v", " ", "2">>)
          /\ ReferenceOf(call'.reqs[1]) = ReferenceOf(call'.reqs[2])
          /\ IF isGeneralUser
               THEN /\ Len(ReferenceOf(call'.reqs[1])) = 1
                    /\ LET ref == Val(ReferenceOf(call'.reqs[1])[1].inlineData)
                       IN DataUrl(ref.mimeType, ref.data) = Val(uploadedImage)
               ELSE ReferenceOf(call'.reqs[1]) = <<>>
     /\ (IsNull(comparisonImages) /\ ~IsNull(comparisonImages')) =>
          /\ TextOf(call.reqs[1]) = Some(call.prompt \o <<" ", "--v", " ", "1">>)
          /\ Answers(Val(comparisonImages').A, call.reqs[1].serial)
          /\ Answers(Val(comparisonImages').B, call.reqs[2].serial)
          /\ ~Answers(Val(comparisonImages').A, call.reqs[2].serial)
          /\ ~Answers(Val(comparisonImages').B, call.reqs[1].serial)
    ]_vars

C13_Witness ==
  /\ PairShown /\ isGeneralUser
  /\ Val(comparisonImages).A = DataUrl(<<"image/png">>, ServicePayload(1))
  /\ Val(comparisonImages).B = DataUrl(<<"image/png">>, ServicePayload(2))

\* the response has a first candidate whose content has a part with inlineData
HasImagePart(response) ==
  /\ ~IsNull(response.candidates)
  /\ Len(Val(response.candidates)) > 0
  /\ ~IsNull(Val(response.candidates)[1].content)
  /\ ~IsNull(Val(Val(response.candidates)[1].content).parts)
  /\ \E i \in DOMAIN Val(Val(Val(response.candidates)[1].content).parts) :
        ~IsNull(Val(Val(Val(response.candidates)[1].content).parts)[i].inlineData)

(* C14 as claimed: when the service responds and the response has no image
   part (no candidates, a first candidate without content or parts, or parts
   without inlineData), generateTestImage throws "No image data found in
   response" and returns no image; when there is an image part, it returns
   the data URL of the first one in part order. *)
C14_NoImageMeansDistinctError ==
  (probe.fn = "generateTestImage" /\ ~probe.response.throws) =>
    IF HasImagePart(probe.response)
      THEN LET parts == Val(Val(Val(probe.response.candidates)[1].content).parts)
               first == CHOOSE i \in DOMAIN parts :
                          /\ ~IsNull(parts[i].inlineData)
                          /\ \A j \in 1..(i - 1) : IsNull(parts[j].inlineData)
           IN /\ probe.result.ok
              /\ probe.result.image =
                   DataUrl(Val(parts[first].inlineData).mimeType,
                           Val(parts[first].inlineData).data)
      ELSE ~probe.result.ok /\ probe.result.error = NoImageError

(* C15 as claimed: for every media type and payload, parseBase64 applied to
   the string data:<media-type>;base64,<payload> returns that media type and
   that payload, and does not throw. *)
C15_RoundTripOfEveryImage ==
  probe.fn = "parseBase64" =>
    /\ probe.result.ok
    /\ probe.result.mimeType = probe.mimeType
    /\ probe.result.data = probe.data

(* C15 as amended: parseBase64 applied to data:<media-type>;base64,<payload>
   returns the media type and the payload when the media type is non-empty
   and made of characters of [A-Za-z-+/] only and the payload is non-empty
   and has no line terminator; for every other media type or payload it
   throws. *)
C15_RoundTripWithinConvention ==
  probe.fn = "parseBase64" =>
    IF /\ probe.mimeType # <<>>
       /\ \A i \in DOMAIN probe.mimeType : probe.mimeType[i] \in MimeClassTokens
       /\ probe.data # <<>>
       /\ \A i \in DOMAIN probe.data : probe.data[i] # LineTerminator
      THEN /\ probe.result.ok
           /\ probe.result.mimeType = probe.mimeType
           /\ probe.result.data = probe.data
      ELSE ~probe.result.ok

C15_Witness ==
  /\ probe.fn = "parseBase64"
  /\ probe.mimeType = <<"image/svg+xml">>
  /\ probe.data = <<"UE5H", ";base64,">>
  /\ probe.result.ok

\* new is old, or old with one record appended
GrowsByOne(old, new) ==
  \/ new = old
  \/ Len(new) = Len(old) + 1 /\ SubSeq(new, 1, Len(old)) = old

(* C16: in every step of a page session the lists singleEvals and abTests of
   the session stay the same or get one record appended at the end, and the
   scores a recorded evaluation refers to stay the same; only the page reload,
   which starts a new session, empties them. *)
C16_HistoryAppendOnly ==
  [][~Reload =>
        /\ GrowsByOne(session.singleEvals, session'.singleEvals)
        /\ GrowsByOne(session.abTests, session'.abTests)
        /\ \A k \in 1..Len(session.singleEvals) :
              ScoresIn(heap', session.singleEvals[k]) = ScoresIn(heap, session.singleEvals[k])
    ]_vars

C16_Witness ==
  /\ phase = COMPLETED
  /\ Len(session.singleEvals) = 1 /\ Len(session.abTests) = 1
  /\ session.singleEvals[1].timestamp < session.abTests[1].timestamp

(* C17 as claimed: whenever the phase is AB_TEST for a general user, both
   comparison images are populated. *)
C17_GeneralABTestHasPair ==
  (phase = AB_TEST /\ isGeneralUser) =>
    /\ ~IsNull(comparisonImages)
    /\ Truthy(Val(comparisonImages).A) /\ Truthy(Val(comparisonImages).B)

(* C17 as amended: the general-user submit enters AB_TEST at once, before the
   paired generation has settled; whenever the phase is AB_TEST for a general
   user, either the paired generation is in flight, with loading true and no
   pair stored, or it has succeeded, with loading false and both comparison
   images populated. *)
C17_GeneralABTestLoadsOrHasPair ==
  (phase = AB_TEST /\ isGeneralUser) =>
    \/ /\ loading /\ call.kind = "general"
       /\ IsNull(comparisonImages)
    \/ /\ ~loading /\ call.kind = "none"
       /\ ~IsNull(comparisonImages)
       /\ Truthy(Val(comparisonImages).A) /\ Truthy(Val(comparisonImages).B)

C17_Witness ==
  /\ phase = AB_TEST /\ isGeneralUser
  /\ ~loading /\ ~IsNull(comparisonImages)
  /\ error = Null

\* a JSON object has the key, and the value it has under it
Has(object, key) == \E i \in DOMAIN object : object[i][1] = key
Get(object, key) == object[CHOOSE i \in DOMAIN object : object[i][1] = key][2]

\* document says of the single evaluation r what the session says
SameSingleEval(document, r) ==
  /\ Get(document, "prompt") = r.prompt
  /\ Get(document, "image") = r.image
  /\ Get(document, "feedback") = r.feedback
  /\ Get(document, "timestamp") = r.timestamp
  /\ Len(Get(document, "metrics")) = Len(r.metrics)
  /\ \A i \in 1..Len(r.metrics) :
        /\ Get(Get(document, "metrics")[i], "id") = heap[r.metrics[i]].id
        /\ Get(Get(document, "metrics")[i], "score") = heap[r.metrics[i]].score

\* document says of the pairwise choice r what the session says
SameABTest(document, r) ==
  /\ Get(document, "prompt") = r.prompt
  /\ Get(document, "imageA") = r.imageA
  /\ Get(document, "imageB") = r.imageB
  /\ Get(document, "selectedImage") = r.selectedImage
  /\ Get(document, "reasoning") = r.reasoning
  /\ Get(document, "timestamp") = r.timestamp
  /\ Has(document, "sourceImage") <=> ~IsNull(r.sourceImage)
  /\ Has(document, "sourceImage") => Get(document, "sourceImage") = Val(r.sourceImage)

(* C18: the report can be exported exactly in the COMPLETED phase; the file
   has the name model_x_eval_results.json and its document gives the role, the
   experience level, every single evaluation and every pairwise choice of the
   current session; an export changes nothing of the application state, and a
   second export gives the same file. *)
C18_ReportIsTheSession ==
  /\ []((ENABLED DownloadReport) <=> phase = COMPLETED)
  /\ [](~IsNull(download) =>
          /\ phase = COMPLETED
          /\ Val(download).filename = "model_x_eval_results.json"
          /\ LET document == Val(download).document IN
               /\ Get(document, "role") = session.role
               /\ Get(document, "experienceLevel") = session.experienceLevel
               /\ Len(Get(document, "singleEvals")) = Len(session.singleEvals)
               /\ \A k \in 1..Len(session.singleEvals) :
                     SameSingleEval(Get(document, "singleEvals")[k], session.singleEvals[k])
               /\ Len(Get(document, "abTests")) = Len(session.abTests)
               /\ \A k \in 1..Len(session.abTests) :
                     SameABTest(Get(document, "abTests")[k], session.abTests[k]))
  /\ [][/\ DownloadReport => UNCHANGED <<appVars, call, orphans, reads>>
        /\ (~IsNull(download) /\ ~IsNull(download')) => download' = download
       ]_vars

C18_Witness ==
  /\ ~IsNull(download)
  /\ session.role = DESIGNER
  /\ Len(Get(Val(download).document, "singleEvals")) = 1
  /\ Len(Get(Val(download).document, "abTests")) = 1
  /\ ~Has(Get(Val(download).document, "abTests")[1], "sourceImage")

(* C19: in COMPLETED the session holds exactly one pairwise choice, and
   exactly one single evaluation when the role is not GENERAL_USER and none
   when it is; the steps from ONBOARDING to USER_INPUT or GENERATION_EVAL and
   from USER_INPUT to AB_TEST append no record. *)
C19_RecordsAtCompletion ==
  /\ [](phase = COMPLETED =>
          /\ Len(session.abTests) = 1
          /\ Len(session.singleEvals) = (IF session.role = GENERAL_USER THEN 0 ELSE 1))
  /\ [][(\/ phase = ONBOARDING /\ phase' \in {USER_INPUT, GENERATION_EVAL}
         \/ phase = USER_INPUT /\ phase' = AB_TEST) =>
            /\ session'.singleEvals = session.singleEvals
            /\ session'.abTests = session.abTests
       ]_vars

C19_Witness ==
  /\ phase = COMPLETED
  /\ session.role = CREATOR
  /\ Len(session.singleEvals) = 1 /\ Len(session.abTests) = 1
  /\ orphans = 1

(* C20: from a state with phase COMPLETED every step other than the page
   reload, those of the requests and file reads still pending and the report
   export included, leaves the phase COMPLETED and the session as it is. *)
C20_CompletedIsTerminal ==
  [][(phase = COMPLETED /\ ~Reload) =>
        phase' = COMPLETED /\ session' = session]_vars

C20_Witness ==
  /\ phase = COMPLETED
  /\ orphans > 0
  /\ Len(reads) > 0

\* the handler of the professional start step has issued its requests
ProfessionalPairIssued == call.kind = "none" /\ call'.kind = "professional"

(* C21: when the professional start step starts the paired generation, the
   base prompt of the two requests is the entered prompt trimmed when that is
   non-blank and a member of SUGGESTED_PROMPTS otherwise; it is non-blank, the
   requests carry no reference image, and the prompt state has the same value
   when the requests are made. *)
C21_ProfessionalBasePrompt ==
  [][ProfessionalPairIssued =>
        \E base \in (IF Trim(prompt) # <<>>
                       THEN {Trim(prompt)}
                       ELSE {SUGGESTED_PROMPTS[i] : i \in DOMAIN SUGGESTED_PROMPTS}) :
          /\ TextOf(call'.reqs[1]) = Some(base \o <<" ", "--v", " ", "1">>)
          /\ TextOf(call'.reqs[2]) = Some(base \o <<" ", "--v", " ", "2">>)
          /\ Trim(base) # <<>>
          /\ ReferenceOf(call'.reqs[1]) = <<>> /\ ReferenceOf(call'.reqs[2]) = <<>>
          /\ IsNull(call'.referenceImage)
          /\ prompt' = base
    ]_vars

C21_Witness ==
  /\ call.kind = "professional"
  /\ prompt = <<"bike">>
  /\ TextOf(call.reqs[2]) = Some(<<"bike", " ", "--v", " ", "2">>)

\* a step of handleSubmitSingleEval past its guard
SingleEvalSubmitted == HandleSubmitSingleEval /\ ~IsNull(generatedImage)

(* C22: right after a single evaluation has been submitted the phase is
   AB_TEST, the four live metrics show the default score 3, the generated
   image is cleared and the prompt and the feedback text are empty; the
   feedback text is still empty when the comparison pair of the following
   pairwise step comes on screen. *)
C22_SubmitResetsTransientState ==
  [][/\ SingleEvalSubmitted =>
          /\ phase' = AB_TEST
          /\ Len(metrics') = 4
          /\ \A i \in 1..4 : heap'[metrics'[i]].score = 3
          /\ [i \in 1..4 |-> heap'[metrics'[i]].id] = MetricIds
          /\ IsNull(generatedImage')
          /\ prompt' = <<>>
          /\ textFeedback' = <<>>
     /\ (~PairShown /\ PairShown') => textFeedback' = <<>>
    ]_vars

C22_Witness ==
  /\ phase = AB_TEST /\ session.role = DESIGNER
  /\ Len(session.singleEvals) = 1
  /\ ScoresIn(heap, session.singleEvals[1]) = <<5, 5, DefaultScore, DefaultScore>>
  /\ ShownScores = <<DefaultScore, DefaultScore, DefaultScore, DefaultScore>>
  /\ prompt = <<>> /\ IsNull(generatedImage) /\ IsNull(comparisonImages) /\ ~loading

\* a handler call that issues no request, appends no record and leaves phase,
\* loading and error as they are
NoRequestNoRecord ==
  /\ issued' = issued /\ call' = call
  /\ session' = session
  /\ phase' = phase /\ loading' = loading /\ error' = error

(* C23: in every state whose input fails the validation of a handler, a call
   of the handler returns without issuing a request, appending a record or
   changing phase, loading or error: handleGenerateSingle with a blank prompt,
   handleGeneralUserSubmit without an uploaded image or with a blank intent,
   handleSubmitSingleEval without a generated image, handleABSelection
   without a comparison pair. *)
C23_ValidationFailuresAreNoOps ==
  /\ ~Truthy(Trim(prompt)) =>
        /\ ENABLED handleGenerateSingle
        /\ ~ENABLED (handleGenerateSingle /\ ~NoRequestNoRecord)
  /\ (IsNull(uploadedImage) \/ ~Truthy(Trim(prompt))) =>
        /\ ENABLED handleGeneralUserSubmit
        /\ ~ENABLED (handleGeneralUserSubmit /\ ~NoRequestNoRecord)
  /\ IsNull(generatedImage) =>
        /\ ENABLED handleSubmitSingleEval
        /\ ~ENABLED (handleSubmitSingleEval /\ ~NoRequestNoRecord)
  /\ IsNull(comparisonImages) =>
        \A selection \in Selections :
          /\ ENABLED handleABSelection(selection)
          /\ ~ENABLED (handleABSelection(selection) /\ ~NoRequestNoRecord)

C23_Witness ==
  /\ phase = GENERATION_EVAL /\ ~loading
  /\ prompt = <<" ">>
  /\ ENABLED HandleGenerateSingle
  /\ IsNull(generatedImage) /\ IsNull(comparisonImages) /\ IsNull(uploadedImage)
  /\ error = Some(GenerateSingleError)

\* a step of handleABSelection past its guard
ABSelectionMade == \E selection \in Selections : HandleABSelection(selection) /\ phase' = COMPLETED

(* C24 as claimed: the prompt of every appended record is the prompt that was
   passed to the generation of the recorded images: to generateTestImage for a
   single evaluation, to generateComparisonPair for a pairwise choice. *)
C24_RecordedPromptWasSent ==
  [][/\ SingleEvalSubmitted =>
          ~IsNull(sent) /\ Last(session'.singleEvals).prompt = Val(sent).prompt
     /\ ABSelectionMade =>
          ~IsNull(sent) /\ Last(session'.abTests).prompt = Val(sent).prompt
    ]_vars

(* C25 as claimed: the sourceImage of every recorded pairwise choice is the
   reference image that was passed to the paired generation of the recorded
   pair, and is absent in the professional flow, whenever the file reads end. *)
C25_SourceImageWasSent ==
  [][ABSelectionMade =>
        /\ ~IsNull(sent)
        /\ Last(session'.abTests).sourceImage = Val(sent).referenceImage
        /\ ~isGeneralUser => IsNull(Last(session'.abTests).sourceImage)
    ]_vars

\* a handler awaits generateComparisonPair
PairInFlight == call.kind \in {"general", "professional"}

(* C26: while a handler awaits a paired generation, loading is true, no
   pairwise selection can be made and no generation, paired or single, can be
   started, so that one paired generation at most is awaited at any time; and
   a general user in AB_TEST always sees the spinner or the pair, never the
   state with loading false and no pair. *)
C26_OnePairAndNoDeadEnd ==
  /\ PairInFlight =>
        /\ loading /\ Len(call.reqs) = 2
        /\ \A selection \in Selections : ~ENABLED HandleABSelection(selection)
        /\ \A pick \in DOMAIN SUGGESTED_PROMPTS : ~ENABLED HandleStartProfessionalABTest(pick)
        /\ ~ENABLED HandleGeneralUserSubmit
        /\ ~ENABLED HandleGenerateSingle
  /\ (phase = AB_TEST /\ isGeneralUser) =>
        /\ ~(~loading /\ IsNull(comparisonImages))
        /\ SpinnerShown \/ PairShown

C26_Witness ==
  /\ call.kind = "professional" /\ loading
  /\ phase = AB_TEST
  /\ orphans = 1
  /\ ~call.reqs[1].settled /\ ~call.reqs[2].settled

====
